---- MODULE Spec2Model ----
(***************************************************************************)
(* TweetVault web front end: the shared classify route (one classifier     *)
(* child process, many SSE subscribers with a replay buffer), the classify *)
(* panel that consumes its event stream, and the read side of the data     *)
(* library (category registry and progress store).                         *)
(*                                                                         *)
(* Text is a sequence of tokens; "\n" and " " are tokens of their own, so  *)
(* split, trim and JSON.parse are computed on the text.  Node runs every   *)
(* handler to completion, so one action is one handler.  An SSE frame      *)
(* "data: <json>\n\n" is represented by its <json> payload.                *)
(***************************************************************************)
EXTENDS Integers, Sequences, FiniteSets, TLC

\* ---------------------------------------------------------------- bounds
MaxSubs == 2      \* POST requests (stream controllers) in one behaviour
MaxRuns == 2      \* classifier processes spawned in one behaviour
MaxChunks == 2    \* stdout/stderr data events of one child process

Controllers == 1..MaxSubs
Pids == 1..MaxRuns

\* ------------------------------------------------------------------ text
NL == "\n"
WS == " "

Null == [null |-> TRUE]
Has(obj, key) == key \in DOMAIN obj

NumStrs == {"0", "1", "-2", "20", "60", "100"}
ParseNum(s) ==
  CASE s = "0" -> 0 [] s = "1" -> 1 [] s = "-2" -> 0 - 2
    [] s = "20" -> 20 [] s = "60" -> 60 [] s = "100" -> 100
NumStr(n) == CHOOSE s \in NumStrs : ParseNum(s) = n

RECURSIVE SplitFrom(_, _, _)
SplitFrom(text, sep, cur) ==
  IF text = <<>> THEN <<cur>>
  ELSE IF Head(text) = sep THEN <<cur>> \o SplitFrom(Tail(text), sep, <<>>)
  ELSE SplitFrom(Tail(text), sep, Append(cur, Head(text)))
\* String.prototype.split(sep)
split(text, sep) == SplitFrom(text, sep, <<>>)

RECURSIVE trimStart(_)
trimStart(t) ==
  IF t # <<>> /\ Head(t) \in {WS, NL} THEN trimStart(Tail(t)) ELSE t
RECURSIVE trimEnd(_)
trimEnd(t) ==
  IF t # <<>> /\ t[Len(t)] \in {WS, NL} THEN trimEnd(SubSeq(t, 1, Len(t) - 1)) ELSE t
\* String.prototype.trim()
trim(t) == trimEnd(trimStart(t))

\* JSON.parse on the objects this program exchanges; ok = FALSE is a throw.
JSONParse(text) ==
  LET t == trim(text)
      n == Len(t)
      inner == SubSeq(t, 2, n - 1)
      k == Len(inner)
  IN IF n < 2 \/ t[1] # "{" \/ t[n] # "}" THEN [ok |-> FALSE]
     ELSE IF k = 3 /\ inner[1] = "type:progress" /\ inner[2] = "percent:"
               /\ inner[3] \in NumStrs
       THEN [ok |-> TRUE, value |-> [type |-> "progress", percent |-> ParseNum(inner[3])]]
     ELSE IF inner = <<"type:status", "message:m">>
       THEN [ok |-> TRUE, value |-> [type |-> "status", message |-> "m"]]
     ELSE IF inner = <<"type:done">>
       THEN [ok |-> TRUE, value |-> [type |-> "done"]]
     ELSE IF k = 3 /\ inner[1] = "done:true" /\ inner[2] = "code:" /\ inner[3] \in NumStrs
       THEN [ok |-> TRUE, value |-> [done |-> TRUE, code |-> ParseNum(inner[3])]]
     ELSE IF k >= 1 /\ inner[1] = "line:"
       THEN [ok |-> TRUE, value |-> [line |-> Tail(inner)]]
     ELSE IF k >= 1 /\ inner[1] = "error:"
       THEN [ok |-> TRUE, value |-> [error |-> Tail(inner)]]
     ELSE [ok |-> FALSE]

\* JSON.stringify of a message object
JSONStringify(msg) ==
  LET body ==
        IF Has(msg, "type") /\ msg.type = "progress"
          THEN <<"type:progress", "percent:", NumStr(msg.percent)>>
        ELSE IF Has(msg, "type") /\ msg.type = "status"
          THEN <<"type:status", "message:m">>
        ELSE IF Has(msg, "type") THEN <<"type:done">>
        ELSE IF Has(msg, "done")
          THEN <<"done:true", "code:", NumStr(msg.code)>>
        ELSE IF Has(msg, "line") THEN <<"line:">> \o msg.line
        ELSE <<"error:">> \o msg.error
  IN <<"{">> \o body \o <<"}">>

\* ------------------------------------------------- what the child writes
ProgressLine(p) == <<"{", "type:progress", "percent:", NumStr(p), "}">>
StatusLine == <<"{", "type:status", "message:m", "}">>
DoneLine == <<"{", "type:done", "}">>
PlainLine == <<"x">>
BlankLine == <<WS>>

\* a data event carries whole lines, each ended by a newline
Chunk(lines) == IF Len(lines) = 1 THEN lines[1] \o <<NL>>
                ELSE lines[1] \o <<NL>> \o lines[2] \o <<NL>>
Chunks == {Chunk(<<ProgressLine(20)>>), Chunk(<<StatusLine>>), Chunk(<<DoneLine>>),
           Chunk(<<PlainLine, BlankLine>>)}
ErrChunks == {Chunk(<<PlainLine>>)}

\* exit codes the runtime passes to the close listener; Null is a signal
ExitArgs == {[code |-> 0], [code |-> 1], Null}
SpawnFailedArg == [code |-> 0 - 2]

VARIABLES
  state,       \* globalState.classifierState
  stream,      \* per controller: "none" | "readable" | "broken" | "cancelled" | "closed" | "gone"
  received,    \* per controller: the payloads enqueued on it, in order
  replayed,    \* per readable controller: how many of them were history sent by start()
  child,       \* per pid: "unborn" | "running" | "errored" | "closed"
  chunks,      \* per pid: data events delivered so far (n) and, while it runs, their text
  produced,    \* the events the handlers produced since the last spawn, in order
  exit,        \* the argument of the last close event (Null while a run is live)
  panel,       \* the ClassifyPanel component: its props, React state and stream reader
  fs,          \* DATA_DIR: the tweets export, progress.json and categories.json
  seed,        \* the module-level BASE_CATEGORIES object of the data library
  out          \* the last call into a library function and what it returned

serverVars == <<state, stream, received, replayed, child, chunks, produced, exit>>
dataVars == <<fs, seed, out>>
vars == <<state, stream, received, replayed, child, chunks, produced, exit, panel,
          fs, seed, out>>

InitialState ==
  [process |-> Null, subscribers |-> {}, logs |-> <<>>, done |-> FALSE,
   latestProgress |-> Null, latestStatus |-> Null]

\* ---- Number arithmetic (IEEE-754 binary64, round to nearest, ties to even)
\* A positive double is [bits, exp]: bits is its 53-bit significand, most
\* significant bit first, and its value is bits * 2^exp; zero has no bits.
Precision == 53
Zero == [bits |-> <<>>, exp |-> 0]

\* bits + 1 (one bit longer when every bit is 1)
increment(bits) ==
  LET zeros == {k \in 1..Len(bits) : bits[k] = 0}
      z == CHOOSE k \in zeros : \A j \in zeros : j <= k
  IN IF zeros = {} THEN <<1>> \o [k \in 1..Len(bits) |-> 0]
     ELSE [k \in 1..Len(bits) |-> IF k < z THEN bits[k] ELSE IF k = z THEN 1 ELSE 0]

\* an exact value wide * 2^exp (tail: whether nonzero digits follow wide) as a double
round(wide, tail, exp) ==
  LET n == Len(wide)
      kept == SubSeq(wide, 1, Precision)
      half == wide[Precision + 1] = 1
      sticky == tail \/ \E k \in (Precision + 2)..n : wide[k] = 1
      up == half /\ (sticky \/ kept[Precision] = 1)
      next == increment(kept)
  IN IF n <= Precision
     THEN [bits |-> wide \o [k \in 1..(Precision - n) |-> 0], exp |-> exp - (Precision - n)]
     ELSE IF ~up THEN [bits |-> kept, exp |-> exp + (n - Precision)]
     ELSE IF Len(next) = Precision THEN [bits |-> next, exp |-> exp + (n - Precision)]
     ELSE [bits |-> SubSeq(next, 1, Precision), exp |-> exp + (n - Precision) + 1]

\* 2^k modulo t
RECURSIVE pow2mod(_, _)
pow2mod(k, t) ==
  IF k = 0 THEN 1 % t
  ELSE LET h == pow2mod(k \div 2, t)
       IN IF k % 2 = 0 THEN (h * h) % t ELSE (2 * h * h) % t

\* the first n binary digits of r/t after the point (r < t) and the remainder:
\* long division, the remainder before digit k being r * 2^(k-1) modulo t
quotientBits(r, t, n) ==
  [bits |-> [k \in 1..n |-> (2 * ((r * pow2mod(k - 1, t)) % t)) \div t],
   rem |-> (r * pow2mod(n, t)) % t]

\* the position after the point of the first 1 digit of r/t (0 < r < t)
RECURSIVE lead(_, _)
lead(r, t) == IF 2 * r >= t THEN 1 ELSE 1 + lead(2 * r, t)

\* c / t for integers 0 <= c <= t, t > 0
divide(c, t) ==
  IF c = 0 THEN Zero
  ELSE IF c = t THEN round(<<1>>, FALSE, 0)
  ELSE LET p == lead(c, t)
           q == quotientBits(c, t, p + Precision)
       IN round(SubSeq(q.bits, p, p + Precision), q.rem # 0, 0 - (p + Precision))

RECURSIVE binary(_)
binary(n) == IF n = 0 THEN <<>> ELSE binary(n \div 2) \o <<n % 2>>

\* bits[1..i] * k + carry, written in binary
RECURSIVE timesCarry(_, _, _, _)
timesCarry(bits, k, i, carry) ==
  IF i = 0 THEN binary(carry)
  ELSE LET v == bits[i] * k + carry
       IN IF v % 2 = 0 THEN timesCarry(bits, k, i - 1, v \div 2) \o <<0>>
          ELSE timesCarry(bits, k, i - 1, v \div 2) \o <<1>>

\* x * k for a double x and a small positive integer k
multiply(x, k) ==
  IF x = Zero THEN Zero ELSE round(timesCarry(x.bits, k, Len(x.bits), 0), FALSE, x.exp)

\* the integer written by bits[1..i]
RECURSIVE integer(_, _)
integer(bits, i) == IF i = 0 THEN 0 ELSE 2 * integer(bits, i - 1) + bits[i]

\* Math.floor(x) for 0 <= x < 2^31
floor(x) ==
  IF x = Zero \/ Precision + x.exp <= 0 THEN 0
  ELSE integer(x.bits, Precision + x.exp)

\* Math.floor((stats.classifiedTweets / stats.totalTweets) * 100)
initialPercent(stats) ==
  IF stats.totalTweets > 0
  THEN floor(multiply(divide(stats.classifiedTweets, stats.totalTweets), 100))
  ELSE 0

\* the component before its mount effect has run
PanelOf(stats) ==
  [stats |-> stats, open |-> FALSE, running |-> FALSE, done |-> FALSE,
   progress |-> initialPercent(stats), mounted |-> FALSE, timer |-> FALSE,
   phase |-> "idle", resume |-> FALSE, ctl |-> 0, cursor |-> 0]

DefaultStats == [totalTweets |-> 0, classifiedTweets |-> 0]

ServerInit ==
  /\ state = InitialState
  /\ stream = [c \in Controllers |-> "none"]
  /\ received = [c \in Controllers |-> <<>>]
  /\ replayed = [c \in Controllers |-> 0]
  /\ child = [p \in Pids |-> "unborn"]
  /\ chunks = [p \in Pids |-> [n |-> 0, out |-> <<>>, err |-> <<>>]]
  /\ produced = <<>>
  /\ exit = Null

\* A JavaScript object is the sequence of its [k, v] entries in insertion order.
BASE_CATEGORIES ==
  << [k |-> "tech_programming",
      v |-> "Coding tips, programming languages, developer tools, software engineering"],
     [k |-> "ai_ml",
      v |-> "Artificial intelligence, machine learning, LLMs, neural networks, data science"],
     [k |-> "business_startups",
      v |-> "Entrepreneurship, growth strategies, marketing, fundraising, product management"],
     [k |-> "personal_development",
      v |-> "Productivity, habits, mindset, career advice, self-improvement"],
     [k |-> "design_ui_ux",
      v |-> "User interface design, user experience, visual design, design tools"],
     [k |-> "finance_crypto", v |-> "Investing, cryptocurrency, trading, personal finance"],
     [k |-> "humor_memes", v |-> "Funny content, jokes, memes, entertainment"],
     [k |-> "news_politics", v |-> "Current events, political commentary, world news"],
     [k |-> "misc", v |-> "Content that doesn't fit other categories"] >>

NoFiles == [tweets |-> Null, progress |-> Null, categories |-> Null]
NoCall == [fn |-> "none"]

DataIdle ==
  /\ fs = NoFiles
  /\ seed = BASE_CATEGORIES
  /\ out = NoCall

Init ==
  /\ ServerInit
  /\ panel = PanelOf(DefaultStats)
  /\ DataIdle

\* The handlers work on w: the server state, what each controller was handed,
\* the record of what the run produced, and the child processes.
World == [state |-> state, received |-> received, produced |-> produced, child |-> child]

Commit(w) ==
  /\ state' = w.state
  /\ received' = w.received
  /\ produced' = w.produced
  /\ child' = w.child

Spawned == {p \in Pids : child[p] # "unborn"}
Live == {p \in Pids : child[p] \in {"running", "errored"}}

\* controller.enqueue throws unless the stream is readable
enqueueThrows(c) == stream[c] # "readable"

broadcastAbortsOnThrow(w, data) ==
  LET json == JSONStringify(data)
  IN IF \E c \in w.state.subscribers : enqueueThrows(c) THEN w
     ELSE [w EXCEPT !.received = [c \in Controllers |->
                                    IF c \in w.state.subscribers
                                    THEN Append(@[c], json) ELSE @[c]]]

broadcast(w, data) ==
  LET json == JSONStringify(data)
      failed == {c \in w.state.subscribers : enqueueThrows(c)}
  IN [w EXCEPT !.state.subscribers = @ \ failed,
               !.received = [c \in Controllers |->
                               IF c \in w.state.subscribers \ failed
                               THEN Append(@[c], json) ELSE @[c]]]

\* state.logs.push(JSON.stringify(msg)); broadcast(msg)
record(w, msg) ==
  broadcast([w EXCEPT !.state.logs = Append(@, JSONStringify(msg)),
                      !.produced = Append(@, JSONStringify(msg))], msg)

startProcessKeepsLogs(w, pid) ==
  IF w.state.process # Null THEN w
  ELSE [w EXCEPT !.child[pid] = "running",
                 !.produced = <<>>,
                 !.state.process = [pid |-> pid]]

\* spawn() starts child pid; a new run has produced nothing yet
startProcess(w, pid) ==
  IF w.state.process # Null THEN w
  ELSE [w EXCEPT !.state.logs = <<>>,
                 !.state.done = FALSE,
                 !.state.latestProgress = Null,
                 !.state.latestStatus = Null,
                 !.child[pid] = "running",
                 !.produced = <<>>,
                 !.state.process = [pid |-> pid]]

noteParsedDoneEndsRun(st, msg) ==
  IF Has(msg, "type") /\ msg.type = "progress" THEN [st EXCEPT !.latestProgress = msg]
  ELSE IF Has(msg, "type") /\ msg.type = "status" THEN [st EXCEPT !.latestStatus = msg]
  ELSE IF (Has(msg, "type") /\ msg.type = "done") \/ (Has(msg, "done") /\ msg.done)
    THEN [st EXCEPT !.done = TRUE, !.process = Null]
  ELSE st

noteParsed(st, msg) ==
  IF Has(msg, "type") /\ msg.type = "progress" THEN [st EXCEPT !.latestProgress = msg]
  ELSE IF Has(msg, "type") /\ msg.type = "status" THEN [st EXCEPT !.latestStatus = msg]
  ELSE IF (Has(msg, "type") /\ msg.type = "done") \/ (Has(msg, "done") /\ msg.done)
    THEN [st EXCEPT !.done = TRUE]
  ELSE st

RECURSIVE forLines(_, _, _)
forLines(w, lines, isError) ==
  IF lines = <<>> THEN w
  ELSE LET line == Head(lines)
           p == JSONParse(line)
           msg == IF isError THEN [error |-> line]
                  ELSE IF p.ok THEN p.value ELSE [line |-> line]
           w1 == IF ~isError /\ p.ok
                 THEN [w EXCEPT !.state = noteParsed(@, msg)] ELSE w
       IN IF trim(line) = <<>> THEN forLines(w, Tail(lines), isError)
          ELSE forLines(record(w1, msg), Tail(lines), isError)

handleOutput(w, chunk, isError) == forLines(w, split(chunk, NL), isError)

\* code ?? 0
codeOrZero(arg) == IF arg = Null THEN 0 ELSE arg.code

onError(w) == record(w, [error |-> <<"Failed to start">>])

onCloseSilent(w, arg) == [w EXCEPT !.state.process = Null, !.state.done = TRUE]

\* the close listener up to the broadcast; closing the streams is in ProcClose
onClose(w, arg) ==
  broadcast([w EXCEPT !.state.process = Null, !.state.done = TRUE],
            [done |-> TRUE, code |-> codeOrZero(arg)])

SyntheticDone == JSONStringify([done |-> TRUE, code |-> 0])

startNoHistory(w, c) == [w EXCEPT !.state.subscribers = @ \cup {c}]

\* ReadableStream start(controller): subscribe, replay the history, and end the
\* stream at once when the run is already over
start(w, c) ==
  LET w1 == [w EXCEPT !.state.subscribers = @ \cup {c},
                      !.received[c] = w.state.logs]
  IN IF w1.state.done /\ w1.state.process = Null
     THEN [w1 EXCEPT !.received[c] = Append(@, SyntheticDone)]
     ELSE w1

cancelKillsProcess(w, c) ==
  [w EXCEPT !.state.subscribers = @ \ {c},
            !.child = [p \in Pids |-> IF @[p] = "running" THEN "closed" ELSE @[p]]]

\* ReadableStream cancel()
cancel(w, c) == [w EXCEPT !.state.subscribers = @ \ {c}]

\* POST /api/classify, from the end of `await request.json()` on
POST(c) ==
  /\ stream[c] = "none"
  /\ \A d \in Controllers : d < c => stream[d] # "none"
  /\ LET pid == Cardinality(Spawned) + 1
         spawns == state.process = Null
         w1 == IF spawns THEN startProcess(World, pid) ELSE World
         w2 == start(w1, c)
         finished == w1.state.done /\ w1.state.process = Null
         \* streams of earlier runs that neither the server nor the panel's
         \* reader still holds are forgotten
         gone == IF w1.child # child
                 THEN {d \in Controllers \ {c} :
                         /\ stream[d] # "none" /\ d \notin state.subscribers
                         /\ ~(panel.phase = "reading" /\ panel.ctl = d)}
                 ELSE {}
     IN /\ spawns => pid \in Pids
        /\ state' = w2.state
        /\ produced' = w2.produced
        /\ child' = w2.child
        /\ received' = [d \in Controllers |-> IF d \in gone THEN <<>> ELSE w2.received[d]]
        /\ replayed' = [d \in Controllers |->
                          IF d = c THEN Len(w2.received[c])
                          ELSE IF d \in gone THEN 0 ELSE replayed[d]]
        /\ stream' = [d \in Controllers |->
                        IF d = c THEN (IF finished THEN "closed" ELSE "readable")
                        ELSE IF d \in gone THEN "gone" ELSE stream[d]]
        /\ exit' = IF w1.child # child THEN Null ELSE exit
  /\ UNCHANGED chunks

\* the client went away: the stream is cancelled and cancel() runs
Cancel(c) ==
  /\ stream[c] = "readable"
  /\ stream' = [stream EXCEPT ![c] = "cancelled"]
  /\ Commit(cancel(World, c))
  /\ replayed' = [replayed EXCEPT ![c] = 0]
  /\ UNCHANGED <<chunks, exit>>

\* a stream stops being readable without its cancel callback having run
StreamBreak(c) ==
  /\ stream[c] = "readable"
  /\ stream' = [stream EXCEPT ![c] = "broken"]
  /\ replayed' = [replayed EXCEPT ![c] = 0]
  /\ UNCHANGED <<state, received, child, chunks, produced, exit>>

StdoutData(pid, chunk) ==
  /\ child[pid] = "running"
  /\ chunks[pid].n < MaxChunks
  /\ Commit(handleOutput(World, chunk, FALSE))
  /\ chunks' = [chunks EXCEPT ![pid] = [@ EXCEPT !.n = @ + 1, !.out = @ \o chunk]]
  /\ UNCHANGED <<stream, replayed, exit>>

StderrData(pid, chunk) ==
  /\ child[pid] = "running"
  /\ chunks[pid].n < MaxChunks
  /\ Commit(handleOutput(World, chunk, TRUE))
  /\ chunks' = [chunks EXCEPT ![pid] = [@ EXCEPT !.n = @ + 1, !.err = @ \o chunk]]
  /\ UNCHANGED <<stream, replayed, exit>>

\* spawn failed: 'error' is emitted, then 'close' with the negative errno
ProcError(pid) ==
  /\ child[pid] = "running"
  /\ chunks[pid].n = 0
  /\ LET w == onError(World)
     IN Commit([w EXCEPT !.child[pid] = "errored"])
  /\ UNCHANGED <<stream, replayed, chunks, exit>>

ProcCloseLeavesSubscribers(pid, arg) ==
  /\ \/ child[pid] = "running" /\ arg \in ExitArgs
     \/ child[pid] = "errored" /\ arg = SpawnFailedArg
  /\ Commit([onClose(World, arg) EXCEPT !.child[pid] = "closed"])
  /\ exit' = arg
  /\ replayed' = [c \in Controllers |-> 0]
  /\ chunks' = [chunks EXCEPT ![pid] = [@ EXCEPT !.out = <<>>, !.err = <<>>]]
  /\ UNCHANGED stream

ProcClose(pid, arg) ==
  /\ \/ child[pid] = "running" /\ arg \in ExitArgs
     \/ child[pid] = "errored" /\ arg = SpawnFailedArg
  /\ LET w == onClose(World, arg)
     IN /\ Commit([w EXCEPT !.state.subscribers = {}, !.child[pid] = "closed"])
        /\ stream' = [c \in Controllers |->
                        IF c \in w.state.subscribers THEN "closed" ELSE stream[c]]
  /\ exit' = arg
  /\ replayed' = [c \in Controllers |-> 0]
  /\ chunks' = [chunks EXCEPT ![pid] = [@ EXCEPT !.out = <<>>, !.err = <<>>]]

Next ==
  \/ \E c \in Controllers : POST(c) /\ UNCHANGED <<panel, dataVars>>
  \/ \E c \in Controllers : Cancel(c) /\ UNCHANGED <<panel, dataVars>>
  \/ \E c \in Controllers : StreamBreak(c) /\ UNCHANGED <<panel, dataVars>>
  \/ \E p \in Pids, k \in Chunks : StdoutData(p, k) /\ UNCHANGED <<panel, dataVars>>
  \/ \E p \in Pids, k \in ErrChunks : StderrData(p, k) /\ UNCHANGED <<panel, dataVars>>
  \/ \E p \in Pids : ProcError(p) /\ UNCHANGED <<panel, dataVars>>
  \/ \E p \in Pids, a \in ExitArgs \cup {SpawnFailedArg} : ProcClose(p, a) /\ UNCHANGED <<panel, dataVars>>

Spec == Init /\ [][Next]_vars

\* ---- the same route when every child that was spawned terminates
LiveChunks == {Chunk(<<DoneLine>>)}

Terminates(p) ==
  \E a \in ExitArgs \cup {SpawnFailedArg} : ProcClose(p, a) /\ UNCHANGED <<panel, dataVars>>

NextLive ==
  \/ \E c \in Controllers : POST(c) /\ UNCHANGED <<panel, dataVars>>
  \/ \E c \in Controllers : Cancel(c) /\ UNCHANGED <<panel, dataVars>>
  \/ \E c \in Controllers : StreamBreak(c) /\ UNCHANGED <<panel, dataVars>>
  \/ \E p \in Pids, k \in LiveChunks : StdoutData(p, k) /\ UNCHANGED <<panel, dataVars>>
  \/ \E p \in Pids : ProcError(p) /\ UNCHANGED <<panel, dataVars>>
  \/ \E p \in Pids : Terminates(p)

SpecLive == Init /\ [][NextLive]_vars /\ \A p \in Pids : WF_vars(Terminates(p))

\* ---- the same route when a data event may end in the middle of a line
SplitChunks == {<<"{", "type:progress">>, <<"percent:", "20", "}", NL>>}
SplitErrChunks == {<<"x">>, <<"y", NL>>}

NextOutput ==
  \/ \E c \in Controllers : POST(c) /\ UNCHANGED <<panel, dataVars>>
  \/ \E p \in Pids, k \in Chunks \cup SplitChunks :
       StdoutData(p, k) /\ UNCHANGED <<panel, dataVars>>
  \/ \E p \in Pids, k \in ErrChunks \cup SplitErrChunks :
       StderrData(p, k) /\ UNCHANGED <<panel, dataVars>>
  \/ \E p \in Pids, a \in ExitArgs : ProcClose(p, a) /\ UNCHANGED <<panel, dataVars>>

SpecOutput == Init /\ [][NextOutput]_vars

\* ------------------------------------- per-request classify route (part_002)
\* One child process per POST: request r owns controller r and child r.  Here
\* produced is the list of exceptions thrown out of the child's listeners.
Requests == Controllers \cap Pids

\* the stream and what a listener has done to it so far
Request(r) == [stream |-> stream[r], received |-> received[r], thrown |-> FALSE]

\* controller.enqueue(...): throws unless the stream is readable; a throw ends
\* the listener
send(q, obj) ==
  IF q.thrown THEN q
  ELSE IF q.stream # "readable" THEN [q EXCEPT !.thrown = TRUE]
  ELSE [q EXCEPT !.received = Append(@, JSONStringify(obj))]

\* controller.close()
close(q) ==
  IF q.thrown THEN q
  ELSE IF q.stream # "readable" THEN [q EXCEPT !.thrown = TRUE]
  ELSE [q EXCEPT !.stream = "closed"]

RECURSIVE sendLines(_, _, _)
sendLines(q, lines, isError) ==
  IF lines = <<>> THEN q
  ELSE IF trim(Head(lines)) = <<>> THEN sendLines(q, Tail(lines), isError)
  ELSE sendLines(send(q, IF isError THEN [error |-> Head(lines)] ELSE [line |-> Head(lines)]),
                 Tail(lines), isError)

Settle(r, q) ==
  /\ stream' = [stream EXCEPT ![r] = q.stream]
  /\ received' = [received EXCEPT ![r] = q.received]
  /\ produced' = IF q.thrown THEN Append(produced, <<"TypeError">>) ELSE produced

\* POST: spawn the child and hand its stream to the client
RequestPOST(r) ==
  /\ child[r] = "unborn"
  /\ \A o \in Requests : o < r => child[o] # "unborn"
  /\ child' = [child EXCEPT ![r] = "running"]
  /\ stream' = [stream EXCEPT ![r] = "readable"]
  /\ UNCHANGED <<state, received, replayed, chunks, produced, exit>>

RequestStdout(r, chunk) ==
  /\ child[r] = "running"
  /\ chunks[r].n < MaxChunks
  /\ Settle(r, sendLines(Request(r), split(chunk, NL), FALSE))
  /\ chunks' = [chunks EXCEPT ![r] = [@ EXCEPT !.n = @ + 1]]
  /\ UNCHANGED <<state, replayed, child, exit>>

RequestStderr(r, chunk) ==
  /\ child[r] = "running"
  /\ chunks[r].n < MaxChunks
  /\ Settle(r, sendLines(Request(r), split(chunk, NL), TRUE))
  /\ chunks' = [chunks EXCEPT ![r] = [@ EXCEPT !.n = @ + 1]]
  /\ UNCHANGED <<state, replayed, child, exit>>

\* spawn failed: 'error', and 'close' with the negative errno follows
RequestError(r) ==
  /\ child[r] = "running"
  /\ chunks[r].n = 0
  /\ Settle(r, close(send(send(Request(r), [error |-> <<"Failed to start">>]),
                          [done |-> TRUE, code |-> 1])))
  /\ child' = [child EXCEPT ![r] = "errored"]
  /\ UNCHANGED <<state, replayed, chunks, exit>>

RequestClose(r, arg) ==
  /\ \/ child[r] = "running" /\ arg \in ExitArgs
     \/ child[r] = "errored" /\ arg = SpawnFailedArg
  /\ Settle(r, close(send(Request(r), [done |-> TRUE, code |-> codeOrZero(arg)])))
  /\ child' = [child EXCEPT ![r] = "closed"]
  /\ UNCHANGED <<state, replayed, chunks, exit>>

\* the client goes away: cancel() { proc.kill() }; the child may write and
\* exit as it likes until the signal ends it
RequestCancel(r) ==
  /\ stream[r] = "readable"
  /\ stream' = [stream EXCEPT ![r] = "cancelled"]
  /\ UNCHANGED <<state, received, replayed, child, chunks, produced, exit>>

NextRequest ==
  \/ \E r \in Requests : RequestPOST(r) /\ UNCHANGED <<panel, dataVars>>
  \/ \E r \in Requests, k \in Chunks : RequestStdout(r, k) /\ UNCHANGED <<panel, dataVars>>
  \/ \E r \in Requests, k \in ErrChunks : RequestStderr(r, k) /\ UNCHANGED <<panel, dataVars>>
  \/ \E r \in Requests : RequestError(r) /\ UNCHANGED <<panel, dataVars>>
  \/ \E r \in Requests, a \in ExitArgs \cup {SpawnFailedArg} :
       RequestClose(r, a) /\ UNCHANGED <<panel, dataVars>>
  \/ \E r \in Requests : RequestCancel(r) /\ UNCHANGED <<panel, dataVars>>

SpecRequest == Init /\ [][NextRequest]_vars

\* ------------------------------------------------------- classify panel
\* GET /api/classify
GET(st) ==
  [running |-> st.process # Null, done |-> st.done, logCount |-> Len(st.logs),
   progress |-> st.latestProgress, status |-> st.latestStatus]

\* start(isResume) up to the fetch
startPanel(pn, isResume) ==
  IF isResume
  THEN [pn EXCEPT !.running = TRUE, !.done = FALSE, !.phase = "posting", !.resume = TRUE]
  ELSE [pn EXCEPT !.running = TRUE, !.done = FALSE, !.phase = "posting", !.resume = FALSE,
                  !.progress = IF pn.progress > 0 THEN pn.progress
                               ELSE initialPercent(pn.stats)]

\* the dispatch on one parsed event of the stream
dispatch(pn, data) ==
  IF Has(data, "type") /\ data.type = "progress" THEN [pn EXCEPT !.progress = data.percent]
  ELSE IF Has(data, "type") /\ data.type = "status" THEN pn
  ELSE IF Has(data, "type") /\ data.type = "new_category" THEN pn
  ELSE IF (Has(data, "done") /\ data.done) \/ (Has(data, "type") /\ data.type = "done")
    THEN [pn EXCEPT !.done = TRUE, !.progress = 100]
  ELSE pn

\* one "data: ..." part of the stream: parse it, skip it when malformed
onPart(pn, json) ==
  LET p == JSONParse(json)
  IN IF p.ok THEN dispatch(pn, p.value) ELSE pn

\* the mount effect: GET /api/classify, resume when a run is in flight
PanelMount ==
  /\ ~panel.mounted
  /\ LET data == GET(state)
         p1 == [panel EXCEPT !.mounted = TRUE]
     IN panel' = IF data.running
                 THEN [p1 EXCEPT !.open = TRUE, !.timer = TRUE,
                                 !.progress = IF data.progress # Null
                                              THEN data.progress.percent ELSE @]
                 ELSE p1
  /\ UNCHANGED <<serverVars, dataVars>>

\* setTimeout(() => start(true), 100) fires
PanelResume ==
  /\ panel.timer
  /\ panel.phase = "idle"
  /\ panel' = [startPanel(panel, TRUE) EXCEPT !.timer = FALSE]
  /\ UNCHANGED <<serverVars, dataVars>>

PanelOpen ==
  /\ ~panel.open
  /\ panel' = [panel EXCEPT !.open = TRUE]
  /\ UNCHANGED <<serverVars, dataVars>>

\* the Close button, shown while not running
PanelClose ==
  /\ panel.open /\ ~panel.running
  /\ panel' = [panel EXCEPT !.open = FALSE, !.done = FALSE]
  /\ UNCHANGED <<serverVars, dataVars>>

\* the Start button, shown while open, not running and not done
PanelClickStart ==
  /\ panel.open /\ ~panel.running /\ ~panel.done
  /\ ~panel.timer
  /\ panel' = startPanel(panel, FALSE)
  /\ UNCHANGED <<serverVars, dataVars>>

\* the panel's POST reaches the route; the response body is controller c's stream
PanelPOST(c) ==
  /\ panel.phase = "posting"
  /\ POST(c)
  /\ panel' = [panel EXCEPT !.phase = "reading", !.ctl = c, !.cursor = 0]
  /\ UNCHANGED dataVars

\* the reader loop handles the next event of the stream
PanelRead ==
  /\ panel.phase = "reading"
  /\ panel.cursor < Len(received[panel.ctl])
  /\ panel' = [onPart(panel, received[panel.ctl][panel.cursor + 1])
                 EXCEPT !.cursor = @ + 1]
  /\ UNCHANGED <<serverVars, dataVars>>

\* reader.read() reports the end of the stream: finally { setRunning(false) }
PanelEnd ==
  /\ panel.phase = "reading"
  /\ panel.cursor = Len(received[panel.ctl])
  /\ stream[panel.ctl] = "closed"
  /\ panel' = [panel EXCEPT !.running = FALSE, !.phase = "idle"]
  /\ UNCHANGED <<serverVars, dataVars>>

PanelStats == {DefaultStats, [totalTweets |-> 5, classifiedTweets |-> 1]}
PanelChunks == {Chunk(<<ProgressLine(20)>>), Chunk(<<ProgressLine(60)>>)}

InitPanel ==
  /\ ServerInit
  /\ \E st \in PanelStats : panel = PanelOf(st)
  /\ DataIdle

\* another client's POST, the child's progress output and exit, and the panel
NextPanel ==
  \/ \E c \in Controllers : POST(c) /\ UNCHANGED <<panel, dataVars>>
  \/ \E p \in Pids, k \in PanelChunks : StdoutData(p, k) /\ UNCHANGED <<panel, dataVars>>
  \/ \E p \in Pids, a \in ExitArgs : ProcClose(p, a) /\ UNCHANGED <<panel, dataVars>>
  \/ PanelMount
  \/ PanelResume
  \/ PanelOpen
  \/ PanelClose
  \/ PanelClickStart
  \/ \E c \in Controllers : PanelPOST(c)
  \/ PanelRead
  \/ PanelEnd

SpecPanel == InitPanel /\ [][NextPanel]_vars

\* ---- the first render of the panel, for any overall stats
MaxTotal == 50    \* totalTweets of the stats prop

AllStats ==
  {[totalTweets |-> t, classifiedTweets |-> c] : t \in 0..MaxTotal, c \in 0..MaxTotal}

\* ClassifyPanel(props): useState(initialPercent)
Render ==
  /\ out.fn = "props"
  /\ panel' = PanelOf(out.stats)
  /\ out' = [fn |-> "render", stats |-> out.stats]
  /\ UNCHANGED <<serverVars, fs, seed>>

InitPercent ==
  /\ ServerInit
  /\ panel = PanelOf(DefaultStats)
  /\ fs = NoFiles
  /\ seed = BASE_CATEGORIES
  /\ \E st \in AllStats :
       /\ st.classifiedTweets <= st.totalTweets
       /\ out = [fn |-> "props", stats |-> st]

SpecPercent == InitPercent /\ [][Render]_vars

\* --------------------------------------------------------- data library
MaxTweets == 3    \* raw records in the tweets export

Keys(obj) == {obj[i].k : i \in 1..Len(obj)}
Get(obj, key) == obj[CHOOSE i \in 1..Len(obj) : obj[i].k = key].v

\* obj[key] = value: an existing key keeps its position, a new key goes last
Put(obj, key, value) ==
  IF key \in Keys(obj)
  THEN [i \in 1..Len(obj) |-> IF obj[i].k = key THEN [k |-> key, v |-> value] ELSE obj[i]]
  ELSE Append(obj, [k |-> key, v |-> value])

RECURSIVE ObjectAssign(_, _)
ObjectAssign(target, source) ==
  IF source = <<>> THEN target
  ELSE ObjectAssign(Put(target, Head(source).k, Head(source).v), Tail(source))

\* readJSON(filename): null when the file does not exist.  A parsed array is
\* [items |-> its elements], a parsed categories object [entries |-> its entries].
readJSON(files, filename) == files[filename]

\* findTweetsFile(): the first twitter-*.json of DATA_DIR, or null
findTweetsFile(files) == IF files.tweets = Null THEN Null ELSE [name |-> "tweets"]

loadProgress(files) ==
  LET data == readJSON(files, "progress")
  IN IF data # Null /\ Has(data, "processed") THEN data.processed ELSE <<>>

\* returns the descriptions and the seed object as the call leaves it
getCategoryDescriptions(files, base) ==
  LET descriptions == base
      dynamic == readJSON(files, "categories")
  IN [value |-> IF dynamic # Null THEN ObjectAssign(descriptions, dynamic.entries)
                ELSE descriptions,
      base |-> base]

\* Array.isArray(raw)
IsArray(raw) == Has(raw, "items")

RECURSIVE Join(_)
Join(tokens) == IF tokens = <<>> THEN "" ELSE Head(tokens) \o Join(Tail(tokens))

Digit(d) ==
  CASE d = 0 -> "0" [] d = 1 -> "1" [] d = 2 -> "2" [] d = 3 -> "3" [] d = 4 -> "4"
    [] d = 5 -> "5" [] d = 6 -> "6" [] d = 7 -> "7" [] d = 8 -> "8" [] d = 9 -> "9"

\* String(i) for an array index
RECURSIVE String(_)
String(i) == IF i < 10 THEN Digit(i) ELSE String(i \div 10) \o Digit(i % 10)

tweetIdNoUrl(tweet, i) ==
  IF Has(tweet, "metadata") /\ Has(tweet.metadata, "rest_id") /\ tweet.metadata.rest_id # ""
  THEN tweet.metadata.rest_id
  ELSE String(i)

\* tweet.metadata?.rest_id || tweet.url?.split("/").pop() || String(i);
\* "" stands for undefined as well, both are falsy
tweetId(tweet, i) ==
  LET restId == IF Has(tweet, "metadata") /\ Has(tweet.metadata, "rest_id")
                THEN tweet.metadata.rest_id ELSE ""
      parts == IF Has(tweet, "url") THEN split(tweet.url, "/") ELSE <<>>
      popped == IF parts = <<>> THEN "" ELSE Join(parts[Len(parts)])
  IN IF restId # "" THEN restId
     ELSE IF popped # "" THEN popped
     ELSE String(i)

toTweet(tweet, i, progress) ==
  LET id == tweetId(tweet, i)
  IN [id |-> id,
      text |-> IF Has(tweet, "full_text") /\ tweet.full_text # "" THEN tweet.full_text ELSE "",
      author |-> IF Has(tweet, "screen_name") /\ tweet.screen_name # ""
                 THEN tweet.screen_name ELSE "unknown",
      url |-> IF Has(tweet, "url") THEN tweet.url ELSE <<>>,
      categories |-> IF id \in DOMAIN progress THEN progress[id] ELSE <<>>]

getTweets(files) ==
  LET tweetsFile == findTweetsFile(files)
      raw == readJSON(files, "tweets")
      progress == loadProgress(files)
  IN IF tweetsFile = Null THEN <<>>
     ELSE IF ~IsArray(raw) THEN <<>>
     ELSE [i \in 1..Len(raw.items) |-> toTweet(raw.items[i], i - 1, progress)]

isClassifiedAny(t) == Len(t.categories) >= 0

\* (t) => t.categories.length > 0
isClassified(t) == Len(t.categories) > 0

getClassifiedTweets(files) == SelectSeq(getTweets(files), isClassified)

Includes(seq, x) == \E i \in 1..Len(seq) : seq[i] = x

\* counts[cat] after the two loops of getCategories
countOf(tweets, cat) ==
  LET Occ(t) == Cardinality({j \in 1..Len(t.categories) : t.categories[j] = cat})
      RECURSIVE Sum(_)
      Sum(ts) == IF ts = <<>> THEN 0 ELSE Occ(Head(ts)) + Sum(Tail(ts))
  IN Sum(tweets)

\* Array.prototype.sort((a, b) => b.count - a.count): stable, by count descending
RECURSIVE sortByCount(_)
sortByCount(list) ==
  IF list = <<>> THEN <<>>
  ELSE LET rest == sortByCount(Tail(list))
           x == Head(list)
           before == SelectSeq(rest, LAMBDA y : y.count > x.count)
           after == SelectSeq(rest, LAMBDA y : y.count <= x.count)
       IN before \o <<x>> \o after

getCategories(files, base) ==
  LET tweets == getClassifiedTweets(files)
      descriptions == getCategoryDescriptions(files, base).value
      kept == SelectSeq(descriptions, LAMBDA e : countOf(tweets, e.k) > 0)
      listed == [i \in 1..Len(kept) |->
                   [id |-> kept[i].k, description |-> kept[i].v,
                    count |-> countOf(tweets, kept[i].k)]]
  IN sortByCount(listed)

\* getClassifiedTweets().filter((t) => t.categories.includes(categoryId))
getTweetsByCategory(files, categoryId) ==
  SelectSeq(getClassifiedTweets(files), LAMBDA t : Includes(t.categories, categoryId))

getStats(files, base) ==
  LET all == getTweets(files)
      classified == SelectSeq(all, isClassified)
  IN [totalTweets |-> Len(all),
      classifiedTweets |-> Len(classified),
      totalCategories |-> Len(getCategories(files, base))]

CallGetCategoryDescriptions ==
  /\ LET r == getCategoryDescriptions(fs, seed)
     IN /\ out' = [fn |-> "getCategoryDescriptions", value |-> r.value]
        /\ seed' = r.base
  /\ UNCHANGED <<fs, serverVars, panel>>

CallGetTweets ==
  /\ out' = [fn |-> "getTweets", value |-> getTweets(fs)]
  /\ UNCHANGED <<fs, seed, serverVars, panel>>

CallGetClassifiedTweets ==
  /\ out' = [fn |-> "getClassifiedTweets", value |-> getClassifiedTweets(fs)]
  /\ UNCHANGED <<fs, seed, serverVars, panel>>

CallGetCategories ==
  /\ out' = [fn |-> "getCategories", value |-> getCategories(fs, seed)]
  /\ UNCHANGED <<fs, seed, serverVars, panel>>

CallGetStats ==
  /\ out' = [fn |-> "getStats", value |-> getStats(fs, seed)]
  /\ UNCHANGED <<fs, seed, serverVars, panel>>

\* ---- the files the library may find
Url(last) == <<"https:", "/", "/", "x.com", "/", "u", "/", "status", "/">> \o last

RawRecords ==
  { [metadata |-> [rest_id |-> "101"], full_text |-> "alpha", screen_name |-> "ann",
     url |-> Url(<<"109">>)],
    [full_text |-> "Beta", screen_name |-> "bob", url |-> Url(<<"102">>)],
    [full_text |-> "gamma"],
    [metadata |-> [rest_id |-> ""], full_text |-> "delta", url |-> Url(<<>>)] }

RECURSIVE SeqsUpTo(_, _)
SeqsUpTo(S, n) ==
  IF n = 0 THEN {<<>>}
  ELSE LET shorter == SeqsUpTo(S, n - 1)
       IN shorter \cup {Append(q, x) : q \in shorter, x \in S}

TweetFiles ==
  {Null, [notAnArray |-> TRUE]} \cup {[items |-> q] : q \in SeqsUpTo(RawRecords, MaxTweets)}

StoreIds == {"101", "102", "0"}
Assignments == {<<>>, <<"misc", "new_topic">>}
ProgressFiles ==
  {Null, [version |-> "1"]}
    \cup {[processed |-> f] : f \in UNION {[ids -> Assignments] : ids \in SUBSET StoreIds}}

CategoryFiles ==
  { Null,
    [entries |-> <<>>],
    [entries |-> <<[k |-> "new_topic", v |-> "N"]>>],
    [entries |-> <<[k |-> "misc", v |-> "M"]>>],
    [entries |-> <<[k |-> "new_topic", v |-> "N"], [k |-> "misc", v |-> "M"]>>] }

InitData ==
  /\ ServerInit
  /\ panel = PanelOf(DefaultStats)
  /\ fs \in [tweets : TweetFiles, progress : ProgressFiles, categories : CategoryFiles]
  /\ seed = BASE_CATEGORIES
  /\ out = NoCall

NextData ==
  \/ CallGetCategoryDescriptions
  \/ CallGetTweets
  \/ CallGetClassifiedTweets
  \/ CallGetCategories
  \/ CallGetStats

SpecData == InitData /\ [][NextData]_vars

\* ------------------------------------------ classification client (search)
MaxContent == 5   \* tokens in the model's reply

FENCE == "fence"    \* three backquotes
CategoryMembers == {"categories:misc", "categories:new_topic"}
KeywordMembers == {"keywords:alpha", "keywords:L"}

\* the array a member token carries
MemberValue(tok) ==
  CASE tok = "categories:misc" -> <<"misc">>
    [] tok = "categories:new_topic" -> <<"new_topic">>
    [] tok = "keywords:alpha" -> <<"alpha">>
    [] tok = "keywords:L" -> <<"L">>

\* JSON.parse on the model's reply: whitespace between tokens is skipped; an
\* object holds at most one "categories" and one "keywords" member; null parses
\* to null; everything else throws (ok = FALSE).
ParseModelJSON(text) ==
  LET t == SelectSeq(text, LAMBDA x : x \notin {WS, NL})
      n == Len(t)
      inner == SubSeq(t, 2, n - 1)
      cats == SelectSeq(inner, LAMBDA x : x \in CategoryMembers)
      kws == SelectSeq(inner, LAMBDA x : x \in KeywordMembers)
  IN IF t = <<"null">> THEN [ok |-> TRUE, value |-> Null]
     ELSE IF n < 2 \/ t[1] # "{" \/ t[n] # "}" THEN [ok |-> FALSE]
     ELSE IF Len(cats) > 1 \/ Len(kws) > 1 \/ Len(cats) + Len(kws) # Len(inner)
       THEN [ok |-> FALSE]
     ELSE [ok |-> TRUE,
           value |-> [c \in (IF cats = <<>> THEN {} ELSE {"categories"})
                              \cup (IF kws = <<>> THEN {} ELSE {"keywords"}) |->
                        IF c = "categories" THEN MemberValue(cats[1])
                        ELSE MemberValue(kws[1])]]

\* text.replace(/^FENCE(?:json)?\n?/, "")
stripOpeningFence(text) ==
  LET a == IF text # <<>> /\ Head(text) = FENCE THEN Tail(text) ELSE text
      b == IF a # text /\ a # <<>> /\ Head(a) = "json" THEN Tail(a) ELSE a
  IN IF a # text /\ b # <<>> /\ Head(b) = NL THEN Tail(b) ELSE b

\* text.replace(/\n?FENCE$/, "")
stripClosingFence(text) ==
  LET n == Len(text)
  IN IF n >= 1 /\ text[n] = FENCE
     THEN IF n >= 2 /\ text[n - 1] = NL THEN SubSeq(text, 1, n - 2)
          ELSE SubSeq(text, 1, n - 1)
     ELSE text

\* text.match(/\{[\s\S]*\}/): from the first "{" to the last "}" after it
matchBraces(text) ==
  LET opens == {k \in 1..Len(text) : text[k] = "{"}
      first == CHOOSE k \in opens : \A j \in opens : k <= j
      closes == {k \in 1..Len(text) : text[k] = "}" /\ k > first}
      last == CHOOSE k \in closes : \A j \in closes : j <= k
  IN IF opens = {} \/ closes = {} THEN Null
     ELSE [match |-> SubSeq(text, first, last)]

\* { categories: parsed.categories || [], keywords: parsed.keywords || [] }
\* reading a property of null throws
pick(parsed) ==
  IF parsed = Null THEN [thrown |-> TRUE]
  ELSE [thrown |-> FALSE,
        categories |-> IF Has(parsed, "categories") THEN parsed.categories ELSE <<>>,
        keywords |-> IF Has(parsed, "keywords") THEN parsed.keywords ELSE <<>>]

NoMatches == [thrown |-> FALSE, categories |-> <<>>, keywords |-> <<>>]

\* lines 123-148: the reply's content to the returned categories and keywords
parseContent(content) ==
  LET trimmed == trim(content)
      text == IF trimmed # <<>> /\ Head(trimmed) = FENCE
              THEN stripClosingFence(stripOpeningFence(trimmed)) ELSE trimmed
      strict == ParseModelJSON(text)
      match == matchBraces(text)
      loose == IF match = Null THEN [ok |-> FALSE] ELSE ParseModelJSON(match.match)
  IN IF strict.ok /\ ~pick(strict.value).thrown THEN pick(strict.value)
     ELSE IF loose.ok /\ ~pick(loose.value).thrown THEN pick(loose.value)
     ELSE NoMatches

\* the environment of one call: the API key, the HTTP response and its content
findRelevantCategories(env) ==
  IF ~env.apiKey THEN [thrown |-> TRUE]
  ELSE IF ~env.respOk THEN [thrown |-> TRUE]
  ELSE parseContent(env.content)

ContentTokens ==
  {FENCE, "json", NL, "{", "}", "categories:misc", "keywords:alpha", "prose", "null"}
Contents(n) == [1..n -> ContentTokens]
FailedEnvs ==
  {[apiKey |-> FALSE, respOk |-> FALSE, content |-> <<>>],
   [apiKey |-> TRUE, respOk |-> FALSE, content |-> <<>>]}

\* a call that was made returns (or throws)
CallFindRelevantCategories ==
  /\ out.fn = "calling"
  /\ out' = [fn |-> "findRelevantCategories", env |-> out.env,
             value |-> findRelevantCategories(out.env)]
  /\ UNCHANGED <<fs, seed, serverVars, panel>>

InitParse ==
  /\ ServerInit
  /\ panel = PanelOf(DefaultStats)
  /\ fs = NoFiles
  /\ seed = BASE_CATEGORIES
  /\ \/ \E e \in FailedEnvs : out = [fn |-> "calling", env |-> e]
     \/ \E n \in 0..MaxContent : \E c \in Contents(n) :
          out = [fn |-> "calling", env |-> [apiKey |-> TRUE, respOk |-> TRUE, content |-> c]]

SpecParse == InitParse /\ [][CallFindRelevantCategories]_vars

\* ------------------------------------------------------- search route
\* Strings are read character by character here.
UPPER == "ABCDEFGHIJKLMNOPQRSTUVWXYZ"
LOWER == "abcdefghijklmnopqrstuvwxyz"

lowerChar(ch) ==
  IF \E i \in 1..Len(UPPER) : SubSeq(UPPER, i, i) = ch
  THEN LET i == CHOOSE i \in 1..Len(UPPER) : SubSeq(UPPER, i, i) = ch IN SubSeq(LOWER, i, i)
  ELSE ch

\* String.prototype.toLowerCase()
RECURSIVE toLowerCase(_)
toLowerCase(str) ==
  IF str = "" THEN ""
  ELSE lowerChar(SubSeq(str, 1, 1)) \o toLowerCase(SubSeq(str, 2, Len(str)))

\* String.prototype.includes(k)
includes(str, k) ==
  \E i \in 1..(Len(str) - Len(k) + 1) : SubSeq(str, i, i + Len(k) - 1) = k

\* str.split(/\s+/).filter(Boolean)
RECURSIVE words(_, _)
words(str, cur) ==
  IF str = "" THEN (IF cur = "" THEN <<>> ELSE <<cur>>)
  ELSE IF SubSeq(str, 1, 1) \in {" ", "\n", "\t"}
    THEN (IF cur = "" THEN <<>> ELSE <<cur>>) \o words(SubSeq(str, 2, Len(str)), "")
  ELSE words(SubSeq(str, 2, Len(str)), cur \o SubSeq(str, 1, 1))

\* `${t.text} ${t.author}`.toLowerCase()
haystack(t) == toLowerCase(t.text \o " " \o t.author)

\* data.ts searchTweets(query)
searchTweets(files, query) ==
  LET ws == words(toLowerCase(query), "")
  IN SelectSeq(getClassifiedTweets(files),
               LAMBDA t : \A i \in 1..Len(ws) : includes(haystack(t), ws[i]))

\* [...byCategory, ...byKeyword] without the items whose id was seen before
RECURSIVE dedupe(_, _)
dedupe(list, seen) ==
  IF list = <<>> THEN <<>>
  ELSE IF Head(list).id \in seen THEN dedupe(Tail(list), seen)
  ELSE <<Head(list)>> \o dedupe(Tail(list), seen \cup {Head(list).id})

mergeKeywordFirst(byCategory, byKeyword) == dedupe(byKeyword \o byCategory, {})

merge(byCategory, byKeyword) == dedupe(byCategory \o byKeyword, {})

\* !q.trim()
blank(q) == \A i \in 1..Len(q) : SubSeq(q, i, i) \in {" ", "\n", "\t"}

\* GET /api/search?q=..&mode=..; env is what the model call meets
searchGET(files, base, q, mode, env) ==
  LET found == findRelevantCategories(env)
      allTweets == getClassifiedTweets(files)
      byCategory == SelectSeq(allTweets, LAMBDA t :
                      \E i \in 1..Len(t.categories) : Includes(found.categories, t.categories[i]))
      byKeyword == SelectSeq(allTweets, LAMBDA t :
                     \E i \in 1..Len(found.keywords) :
                        includes(haystack(t), toLowerCase(found.keywords[i])))
  IN IF blank(q) THEN [status |-> 200, tweets |-> <<>>, called |-> FALSE]
     ELSE IF mode = "text"
       THEN [status |-> 200, tweets |-> searchTweets(files, q), called |-> FALSE]
     ELSE IF found.thrown THEN [status |-> 500, tweets |-> <<>>, called |-> TRUE]
     ELSE [status |-> 200, tweets |-> merge(byCategory, byKeyword), called |-> TRUE,
           matchedCategories |-> found.categories, suggestedKeywords |-> found.keywords]

\* the request has been received and is answered
SearchGET ==
  /\ out.fn = "request"
  /\ out' = [fn |-> "search", q |-> out.q, mode |-> out.mode, env |-> out.env,
             value |-> searchGET(fs, seed, out.q, out.mode, out.env)]
  /\ UNCHANGED <<fs, seed, serverVars, panel>>

SearchAssignments == {<<>>, <<"misc">>, <<"new_topic", "misc">>}
SearchStores ==
  {Null} \cup {[processed |-> f] :
                 f \in UNION {[ids -> SearchAssignments] : ids \in SUBSET StoreIds}}
Reply(content) == [apiKey |-> TRUE, respOk |-> TRUE, content |-> content]
SearchRequests ==
  {[q |-> " ", mode |-> "ai", env |-> Reply(<<"{", "}">>)],
   [q |-> "Beta  BOB", mode |-> "text", env |-> Reply(<<"{", "}">>)],
   [q |-> "x", mode |-> "ai", env |-> [apiKey |-> TRUE, respOk |-> FALSE, content |-> <<>>]],
   [q |-> "x", mode |-> "ai", env |-> Reply(<<"prose">>)],
   [q |-> "x", mode |-> "ai", env |-> Reply(<<"{", "keywords:alpha", "}">>)],
   [q |-> "x", mode |-> "ai",
    env |-> Reply(<<FENCE, "json", NL, "{", "categories:new_topic", "keywords:L", "}", NL, FENCE>>)]}

InitSearch ==
  /\ ServerInit
  /\ panel = PanelOf(DefaultStats)
  /\ seed = BASE_CATEGORIES
  /\ \E q \in SeqsUpTo(RawRecords, MaxTweets), st \in SearchStores :
       fs = [tweets |-> [items |-> q], progress |-> st, categories |-> Null]
  /\ \E rq \in SearchRequests :
       out = [fn |-> "request", q |-> rq.q, mode |-> rq.mode, env |-> rq.env]

SpecSearch == InitSearch /\ [][SearchGET]_vars

\* ------------------------------------------------ shared classify route
\* the consumer's test for a done event: data.done || data.type === "done"
IsDoneEvent(json) ==
  LET p == JSONParse(json)
  IN p.ok /\ \/ Has(p.value, "done") /\ p.value.done
             \/ Has(p.value, "type") /\ p.value.type = "done"

IsPrefix(a, b) == Len(a) <= Len(b) /\ SubSeq(b, 1, Len(a)) = a

DoneCount(seq) == Cardinality({i \in 1..Len(seq) : IsDoneEvent(seq[i])})

Attaches(c) == stream[c] = "none" /\ stream'[c] # "none"

\* C1: at most one classifier child process is alive at a time; a POST that
\* finds state.process set attaches its controller to the run in flight and
\* spawns nothing; a POST that finds it null spawns exactly one process.
C1_SingleFlight ==
  [][/\ Cardinality(Live') <= 1
     /\ \A c \in Controllers : Attaches(c) =>
          IF state.process # Null
          THEN /\ Spawned' = Spawned
               /\ state'.process = state.process
               /\ c \in state'.subscribers
          ELSE /\ Cardinality(Spawned' \ Spawned) = 1
               /\ state'.process # Null
               /\ Live' = {state'.process.pid}]_vars

\* a second POST has joined the first process's run
C1_Witness ==
  /\ state.process # Null
  /\ Cardinality(state.subscribers) = 2
  /\ Cardinality(Spawned) = 1

\* C2: an attached subscriber has been handed exactly the events the run has
\* produced so far, in the order produced (history first, then the live ones);
\* one that left was handed a prefix of them; one closed at the end of the run
\* was handed all of them followed by the final done.
C2_Replay ==
  \A c \in Controllers :
    /\ (stream[c] = "readable" /\ c \in state.subscribers) => received[c] = produced
    /\ stream[c] \in {"broken", "cancelled"} => IsPrefix(received[c], produced)
    /\ stream[c] = "closed" =>
         /\ received[c] # <<>>
         /\ SubSeq(received[c], 1, Len(received[c]) - 1) = produced

\* a late joiner that was replayed history and then received live events
C2_Witness ==
  \E c \in Controllers :
    /\ stream[c] = "readable"
    /\ replayed[c] > 0
    /\ Len(received[c]) > replayed[c]

\* C3: every subscriber the run closed was handed exactly one done event, and
\* it is the last event it was handed.
C3_DoneOnceLast ==
  \A c \in Controllers :
    stream[c] = "closed" =>
      /\ DoneCount(received[c]) = 1
      /\ IsDoneEvent(received[c][Len(received[c])])

\* C4: a cancel removes that controller from state.subscribers and changes
\* nothing else: the rest of state, the other streams, what was delivered, and
\* the child process, which stays alive.
C4_CancelFrame ==
  [][\A c \in Controllers :
       (stream[c] = "readable" /\ stream'[c] = "cancelled") =>
         /\ state' = [state EXCEPT !.subscribers = @ \ {c}]
         /\ c \notin state'.subscribers
         /\ child' = child
         /\ produced' = produced
         /\ received' = received
         /\ \A d \in Controllers \ {c} : stream'[d] = stream[d]]_vars

\* a run that outlived a cancelled subscriber and closed another one at its end
C4_Witness ==
  \E c, d \in Controllers :
    /\ stream[c] = "cancelled"
    /\ stream[d] = "closed"
    /\ state.process = Null
    /\ Live = {}

\* C5: when an event is recorded and broadcast, the subscribers whose enqueue
\* throws are dropped, every other subscriber is handed the event, the event is
\* in the replay buffer, and the run goes on.
C5_FanOutIsolation ==
  [][Len(produced') > Len(produced) =>
       LET new == SubSeq(produced', Len(produced) + 1, Len(produced'))
           failed == {c \in state.subscribers : stream[c] # "readable"}
       IN /\ IsPrefix(produced, produced')
          /\ state'.logs = state.logs \o new
          /\ state'.subscribers = state.subscribers \ failed
          /\ \A c \in state.subscribers \ failed : received'[c] = received[c] \o new
          /\ state'.process = state.process
          /\ state.process # Null]_vars

\* one subscriber was dropped at an event that another one was handed
C5_Witness ==
  \E c, d \in Controllers :
    /\ stream[c] = "broken" /\ c \notin state.subscribers
    /\ stream[d] = "readable" /\ d \in state.subscribers
    /\ received[d] = produced
    /\ Len(received[c]) < Len(produced)

RunEndedNormally == exit = [code |-> 0]

\* C7: the done event that ends a subscriber's stream carries code 0 exactly
\* when the process exited normally with status 0.
C7_DoneCodeReflectsOutcome ==
  \A c \in Controllers :
    stream[c] = "closed" =>
      LET d == JSONParse(received[c][Len(received[c])]).value
      IN (d.code = 0) <=> RunEndedNormally

\* ---------------------------------------------------------- panel claims
IsProgressEvent(json) ==
  LET p == JSONParse(json)
  IN p.ok /\ Has(p.value, "type") /\ p.value.type = "progress"

PercentOf(json) == JSONParse(json).value.percent

\* the progress events of a stream carry percents in [0,100] that never decrease
ProgressNonDecreasing(seq) ==
  /\ \A i \in 1..Len(seq) :
       IsProgressEvent(seq[i]) => PercentOf(seq[i]) \in 0..100
  /\ \A i, j \in 1..Len(seq) :
       (i < j /\ IsProgressEvent(seq[i]) /\ IsProgressEvent(seq[j])) =>
         PercentOf(seq[i]) <= PercentOf(seq[j])

PanelStream == IF panel.ctl = 0 THEN <<>> ELSE received[panel.ctl]

\* C8: between start() and the done event the displayed percent never
\* decreases, whatever it was when start() was invoked, as long as the stream's
\* progress events carry non-decreasing percents in [0,100]; once done has been
\* received it is 100.
C8_DisplayedPercentMonotone ==
  [][/\ (panel.running /\ ~panel.done /\ ProgressNonDecreasing(PanelStream')) =>
          panel'.progress >= panel.progress
     /\ panel'.done => panel'.progress = 100]_vars

\* ----------------------------------------------------------- data claims
DynamicIds(files) ==
  IF files.categories = Null THEN {} ELSE Keys(files.categories.entries)

\* C9: a load returns the seed ids together with the persisted dynamic ids,
\* every seed id with its seed description whatever the dynamic file says about
\* that id, and leaves the seed table as it was.
C9_SeedDescriptionsKept ==
  out.fn = "getCategoryDescriptions" =>
    /\ Keys(out.value) = Keys(BASE_CATEGORIES) \cup DynamicIds(fs)
    /\ \A id \in Keys(BASE_CATEGORIES) :
         Get(out.value, id) = Get(BASE_CATEGORIES, id)
    /\ seed = BASE_CATEGORIES

\* the assignment the progress store holds for an id
Stored(files, id) ==
  IF files.progress # Null /\ Has(files.progress, "processed")
       /\ id \in DOMAIN files.progress.processed
  THEN files.progress.processed[id]
  ELSE <<>>

\* positions of getTweets() whose id has a non-empty assignment in the store
ClassifiedAt(files) ==
  {i \in 1..Len(getTweets(files)) : Stored(files, getTweets(files)[i].id) # <<>>}

\* C10: getClassifiedTweets returns exactly the items of getTweets whose id has
\* a non-empty assignment in the progress store, in source order; getStats
\* counts them, and 0 <= classifiedTweets <= totalTweets.
C10_ClassifiedIffNonEmpty ==
  /\ out.fn = "getClassifiedTweets" =>
       /\ Len(out.value) = Cardinality(ClassifiedAt(fs))
       /\ \A i \in ClassifiedAt(fs) :
            out.value[Cardinality({j \in ClassifiedAt(fs) : j <= i})] = getTweets(fs)[i]
  /\ out.fn = "getStats" =>
       /\ out.value.totalTweets = Len(getTweets(fs))
       /\ out.value.classifiedTweets = Cardinality(ClassifiedAt(fs))
       /\ out.value.classifiedTweets = Len(getClassifiedTweets(fs))
       /\ out.value.classifiedTweets \in 0..out.value.totalTweets

\* a classified item, one mapped to an empty list and one absent from the store
C10_Witness ==
  /\ out.fn = "getClassifiedTweets"
  /\ Len(out.value) = 1
  /\ \E i, j \in 1..Len(getTweets(fs)) :
       /\ getTweets(fs)[i].id \notin DOMAIN loadProgress(fs)
       /\ getTweets(fs)[j].id \in DOMAIN loadProgress(fs)
       /\ Stored(fs, getTweets(fs)[j].id) = <<>>

\* the tokens of a url after its last "/"
LastSegment(url) ==
  LET slashes == {k \in 1..Len(url) : url[k] = "/"}
      last == IF slashes = {} THEN 0 ELSE CHOOSE k \in slashes : \A j \in slashes : j <= k
  IN SubSeq(url, last + 1, Len(url))

\* the id the record at 0-based position i is to get
DerivedId(r, i) ==
  IF Has(r, "metadata") /\ Has(r.metadata, "rest_id") /\ r.metadata.rest_id # ""
  THEN r.metadata.rest_id
  ELSE IF Has(r, "url") /\ LastSegment(r.url) # <<>> THEN Join(LastSegment(r.url))
  ELSE ToString(i)

\* C11: getTweets returns one item per raw record in the same order; the item
\* at position i has the id metadata.rest_id when present and non-empty, else
\* the trailing path segment of url when non-empty, else the decimal string of
\* i, and its categories are the progress store's entry for that id (empty
\* when absent).
C11_IdDerivation ==
  (out.fn = "getTweets" /\ fs.tweets # Null /\ IsArray(fs.tweets)) =>
    /\ Len(out.value) = Len(fs.tweets.items)
    /\ \A i \in 1..Len(out.value) :
         /\ out.value[i].id = DerivedId(fs.tweets.items[i], i - 1)
         /\ out.value[i].categories = Stored(fs, out.value[i].id)
         /\ Has(fs.tweets.items[i], "full_text") =>
              out.value[i].text = fs.tweets.items[i].full_text

\* ids from rest_id (over a different url), from the url and from the position
\* in one result, with and without a store entry
C11_Witness ==
  /\ out.fn = "getTweets"
  /\ Len(out.value) = 3
  /\ {out.value[i].id : i \in 1..3} = {"101", "102", "2"}
  /\ \E i \in 1..3 : out.value[i].categories # <<>>
  /\ out.value[3].id = "2" /\ out.value[3].categories = <<>>

\* ------------------------------------------------ model-output parsing
\* the first balanced brace-delimited object of a text: from the first "{" to
\* the "}" that closes it (Null when nothing closes it)
FirstBalancedObject(text) ==
  LET opens == {k \in 1..Len(text) : text[k] = "{"}
      first == CHOOSE k \in opens : \A j \in opens : k <= j
      Depth(k) == Cardinality({j \in first..k : text[j] = "{"})
                    - Cardinality({j \in first..k : text[j] = "}"})
      closers == {k \in first..Len(text) : Depth(k) = 0}
      closing == CHOOSE k \in closers : \A j \in closers : k <= j
  IN IF opens = {} \/ closers = {} THEN Null
     ELSE [match |-> SubSeq(text, first, closing)]

\* a surrounding code fence removed
Unfenced(content) ==
  LET t == trim(content)
  IN IF t # <<>> /\ Head(t) = FENCE THEN stripClosingFence(stripOpeningFence(t)) ELSE t

Usable(p) == p.ok /\ p.value # Null

\* C12: parsing the reply never throws; it returns the strict parse of the
\* fence-stripped text, else the parse of the first balanced brace-delimited
\* object of the text, else empty categories and keywords.
C12_TwoStageParse ==
  (out.fn = "findRelevantCategories" /\ out.env.apiKey /\ out.env.respOk) =>
    LET text == Unfenced(out.env.content)
        strict == ParseModelJSON(text)
        object == FirstBalancedObject(text)
        loose == IF object = Null THEN [ok |-> FALSE] ELSE ParseModelJSON(object.match)
        expected == IF Usable(strict) THEN pick(strict.value)
                    ELSE IF Usable(loose) THEN pick(loose.value)
                    ELSE NoMatches
    IN ~out.value.thrown /\ out.value = expected

\* -------------------------------------------------------- initial percent
\* C13: the percent the panel starts with is floor(100 * classifiedTweets /
\* totalTweets), lies in [0,100], and is 0 when totalTweets is 0.
C13_InitialPercentFloor ==
  out.fn = "render" =>
    /\ panel.progress \in 0..100
    /\ out.stats.totalTweets = 0 => panel.progress = 0
    /\ out.stats.totalTweets > 0 =>
         panel.progress = (100 * out.stats.classifiedTweets) \div out.stats.totalTweets

\* -------------------------------------------------------- event forwarding
\* the non-blank lines of a text that are ended by a newline
WrittenLines(text) ==
  LET parts == split(text, NL)
  IN SelectSeq(SubSeq(parts, 1, Len(parts) - 1), LAMBDA l : trim(l) # <<>>)

\* the event a stdout line stands for
EventOf(line) ==
  IF JSONParse(line).ok THEN JSONStringify(JSONParse(line).value)
  ELSE JSONStringify([line |-> line])

IsErrorEvent(json) == JSONParse(json).ok /\ Has(JSONParse(json).value, "error")
IsOutputEvent(json) == ~IsErrorEvent(json)

\* C14: while the child runs, the replay buffer holds exactly one event per
\* non-blank newline-terminated line the child has written to stdout, in output
\* order (the parsed event of a JSON line, {line} otherwise), and one {error}
\* event per such stderr line, however the bytes were split into data events;
\* every attached subscriber has been sent the same events.
C14_OneEventPerLine ==
  \A p \in Pids : child[p] = "running" =>
    LET outLines == WrittenLines(chunks[p].out)
        errLines == WrittenLines(chunks[p].err)
    IN /\ SelectSeq(state.logs, IsOutputEvent)
            = [i \in 1..Len(outLines) |-> EventOf(outLines[i])]
       /\ SelectSeq(state.logs, IsErrorEvent)
            = [i \in 1..Len(errLines) |-> JSONStringify([error |-> errLines[i]])]
       /\ \A c \in state.subscribers : stream[c] = "readable" => received[c] = state.logs

\* ------------------------------------------------------------ run isolation
\* a step that starts a run
StartsRun == state.process = Null /\ state'.process # Null

\* C15: a step that starts a run finds no subscriber of the previous run
\* attached and leaves logs empty, done false and latestProgress/latestStatus
\* null, its own subscriber having been sent nothing; and in every step each
\* attached subscriber has been sent only events produced by the current run
\* (a prefix of what the handlers produced since the last spawn).
C15_RunIsolation ==
  [][/\ StartsRun =>
          /\ state.subscribers = {}
          /\ state'.logs = <<>> /\ ~state'.done
          /\ state'.latestProgress = Null /\ state'.latestStatus = Null
          /\ \A c \in state'.subscribers : stream[c] = "none" /\ received'[c] = <<>>
     /\ \A c \in state'.subscribers :
          stream'[c] = "readable" => IsPrefix(received'[c], produced')
     /\ state'.process # Null => state'.logs = produced']_vars

\* a second run with a subscriber that has been sent events, after a first run
\* that produced events and had finished
C15_Witness ==
  /\ child[1] = "closed" /\ chunks[1].n > 0
  /\ child[2] = "running"
  /\ \E c \in state.subscribers : received[c] # <<>> /\ received[c] = state.logs

\* ------------------------------------------------------------ panel re-attach
\* C16: the POST the panel sends from start(true), i.e. because its mount-time
\* GET reported a run in flight, spawns no classifier process.
C16_ReattachNeverSpawns ==
  [][(panel.phase = "posting" /\ panel.resume /\ panel'.phase = "reading") =>
       Spawned' = Spawned]_vars

\* ------------------------------------------------------------- GET status
IsStatusEvent(json) ==
  LET p == JSONParse(json)
  IN p.ok /\ Has(p.value, "type") /\ p.value.type = "status"

\* the last event of seq that satisfies Is, parsed (Null if none)
LatestOf(seq, Is(_)) ==
  LET at == {i \in 1..Len(seq) : Is(seq[i])}
  IN IF at = {} THEN Null
     ELSE JSONParse(seq[CHOOSE i \in at : \A j \in at : j <= i]).value

\* C17: what GET /api/classify answers in every reachable state: running
\* exactly while a spawned child has not closed; never running and done
\* together; not running and done from close to the next start; logCount the
\* number of events recorded for the current run; progress and status the most
\* recent progress-typed and status-typed event recorded for it (null if none).
C17_StatusConsistent ==
  LET r == GET(state)
  IN /\ r.running <=> Live # {}
     /\ ~(r.running /\ r.done)
     /\ (Spawned # {} /\ Live = {}) => (~r.running /\ r.done)
     /\ r.logCount = Len(produced)
     /\ r.progress = LatestOf(produced, IsProgressEvent)
     /\ r.status = LatestOf(produced, IsStatusEvent)

\* ----------------------------------------------------------- subscriber set
Attached(c) == c \in state.subscribers /\ stream[c] = "readable"

ReceivedDone(c) ==
  /\ stream[c] = "closed"
  /\ received[c] # <<>> /\ IsDoneEvent(received[c][Len(received[c])])

\* C18: a non-empty subscriber set implies a run in flight; the step in which
\* the child closes sends every attached subscriber the final done, closes its
\* stream and empties the set; so once the child terminates, every subscriber
\* that has not disconnected first has received done.
C18_SubscribersOfARun ==
  /\ [](state.subscribers # {} => state.process # Null)
  /\ [][(state.process # Null /\ state'.process = Null) =>
          /\ state'.subscribers = {}
          /\ \A c \in Controllers : Attached(c) =>
               /\ stream'[c] = "closed"
               /\ Len(received'[c]) = Len(received[c]) + 1
               /\ SubSeq(received'[c], 1, Len(received[c])) = received[c]
               /\ IsDoneEvent(received'[c][Len(received'[c])])]_vars
  /\ \A c \in Controllers :
       Attached(c) ~> (ReceivedDone(c) \/ stream[c] \in {"cancelled", "broken", "gone"})

\* the child has closed and a subscriber that stayed attached holds the done
C18_Witness ==
  /\ state.process = Null /\ state.subscribers = {}
  /\ \E c \in Controllers : ReceivedDone(c) /\ Len(received[c]) > 1
  /\ \E c \in Controllers : stream[c] = "cancelled"

\* ------------------------------------------------- per-request route
\* C19: in the per-request handler, whatever the order of the child's data,
\* error and close events and the client's cancel, a request whose process has
\* ended has had exactly one done event enqueued on its stream, and nothing is
\* enqueued on a stream that has been closed or cancelled.
C19_OneDonePerRequest ==
  /\ [](\A r \in Requests : child[r] = "closed" => DoneCount(received[r]) = 1)
  /\ [][\A r \in Requests :
          stream[r] \in {"closed", "cancelled"} => received'[r] = received[r]]_vars

\* ------------------------------------------------------------ AI search
Elements(seq) == {seq[i] : i \in 1..Len(seq)}

\* the model's answer to the request that was served
Answer == findRelevantCategories(out.env)

CategoryMatched(t) == Elements(t.categories) \cap Elements(Answer.categories) # {}

KeywordMatched(t) ==
  \E k \in Elements(Answer.keywords) :
    includes(toLowerCase(t.text \o " " \o t.author), toLowerCase(k))

\* a at an earlier position of the classified tweets than b
InSourceOrder(a, b) ==
  \E i, j \in 1..Len(getClassifiedTweets(fs)) :
    i < j /\ getClassifiedTweets(fs)[i] = a /\ getClassifiedTweets(fs)[j] = b

\* C20: an AI search that the model answered returns exactly the classified
\* tweets with a matched category or a suggested keyword in text+author
\* (case-insensitive), each id once, the category-matched ones before the
\* keyword-only ones, each group in source order; a blank query returns an
\* empty list without calling the model; a failed model call gives status 500
\* and an empty list.
C20_SearchMerge ==
  out.fn = "search" =>
    LET tweets == out.value.tweets
        classified == getClassifiedTweets(fs)
    IN /\ blank(out.q) => (tweets = <<>> /\ ~out.value.called /\ out.value.status = 200)
       /\ (~blank(out.q) /\ out.mode = "ai" /\ Answer.thrown) =>
            (out.value.status = 500 /\ tweets = <<>>)
       /\ (~blank(out.q) /\ out.mode = "ai" /\ ~Answer.thrown) =>
            /\ out.value.status = 200
            /\ Elements(tweets) =
                 {t \in Elements(classified) : CategoryMatched(t) \/ KeywordMatched(t)}
            /\ \A i, j \in 1..Len(tweets) : i < j =>
                 /\ tweets[i].id # tweets[j].id
                 /\ CategoryMatched(tweets[j]) => CategoryMatched(tweets[i])
                 /\ (CategoryMatched(tweets[i]) <=> CategoryMatched(tweets[j])) =>
                      InSourceOrder(tweets[i], tweets[j])

\* a keyword-only match found through lower-casing, placed after a
\* category-matched tweet that comes later in the source and matches both ways
C20_Witness ==
  /\ out.fn = "search" /\ out.mode = "ai" /\ out.value.status = 200
  /\ Len(out.value.tweets) = 2
  /\ CategoryMatched(out.value.tweets[1]) /\ KeywordMatched(out.value.tweets[1])
  /\ ~CategoryMatched(out.value.tweets[2]) /\ KeywordMatched(out.value.tweets[2])
  /\ InSourceOrder(out.value.tweets[2], out.value.tweets[1])

\* ----------------------------------------------------- category listing
\* C21: every category returned by getCategories has count >= 1, an id that is
\* a key of the loaded registry, and a count equal to the number of tweets
\* getTweetsByCategory returns for that id; the list is ordered by count,
\* non-increasing; and every category id that appears in the assignment of
\* some classified item is listed.
C21_ListingConsistent ==
  out.fn = "getCategories" =>
    LET list == out.value
        registry == getCategoryDescriptions(fs, seed).value
        classified == getClassifiedTweets(fs)
    IN /\ \A i \in 1..Len(list) :
            /\ list[i].count >= 1
            /\ list[i].id \in Keys(registry)
            /\ list[i].count = Len(getTweetsByCategory(fs, list[i].id))
       /\ \A i, j \in 1..Len(list) : i < j => list[i].count >= list[j].count
       /\ \A n \in 1..Len(classified) :
            \A c \in Elements(classified[n].categories) :
              \E i \in 1..Len(list) : list[i].id = c

====
